---- MODULE Spec2Model ----
(***************************************************************************)
(* State-machine model of downloader.py: the two-phase replay download of  *)
(* BattleTag.download_base_replays / BattleTag.download_advanced_replays,   *)
(* driven by BattleTags.download_advanced_replays, against the on-disk      *)
(* cache files and a remote API whose answers are the environment's choice, *)
(* after BattleTags.setup_battle_tags_from_config has resolved config.yml.  *)
(***************************************************************************)
EXTENDS Integers, Sequences, FiniteSets, TLC

(* ------------------------------------------------------------------------ *)
(* Bounds of the model                                                      *)
(* ------------------------------------------------------------------------ *)

\* Number of successive process runs explored.
MaxRuns == 2

\* Length of the longest replay listing the remote serves.
MaxListing == 3

(* ------------------------------------------------------------------------ *)
(* Program constants                                                        *)
(* ------------------------------------------------------------------------ *)

\* The keys of the GAME_TYPES dict, in declaration (iteration) order.
GAME_TYPES == <<"qm", "sl", "ud", "aram">>

\* GAME_TYPES[game_type]: the label the remote API uses for a category.
GameTypeLabel(game_type) ==
    CASE game_type = "qm"   -> "Quick Match"
      [] game_type = "sl"   -> "Storm League"
      [] game_type = "ud"   -> "Unranked Draft"
      [] game_type = "aram" -> "ARAM"

\* Mutant of StatusOk: every status of the 2xx range is accepted.
StatusOk2xx(status) == status >= 200 /\ status < 300

\* Mutant of StatusOk: the status is not checked (as when asserts are off).
StatusAny(status) == TRUE

\* The status the code accepts as success (res.status_code == 200).
StatusOk(status) == status = 200

\* The 2xx range of HTTP statuses.
Is2xx(status) == status >= 200 /\ status < 300

(* ------------------------------------------------------------------------ *)
(* Handles and cache paths                                                  *)
(* ------------------------------------------------------------------------ *)

\* Battle tags are sequences of characters, so that split('#') is computed.
TagA1 == <<"a", "#", "1">>
TagB2 == <<"b", "#", "2">>
TagA2 == <<"a", "#", "2">>

\* The configurations explored: the battle_tags list of config.yml.
Configs == { <<TagA1>>, <<TagA1, TagB2>>, <<TagA1, TagA2>> }

RECURSIVE PrefixBefore(_, _)
\* The longest prefix of s that does not contain the separator sep.
PrefixBefore(s, sep) ==
    IF s = <<>> \/ Head(s) = sep THEN <<>>
    ELSE <<Head(s)>> \o PrefixBefore(Tail(s), sep)

\* username = self.battletag.split('#')[0]
Username(battletag) == PrefixBefore(battletag, "#")

Usernames == { Username(TagA1), Username(TagB2), Username(TagA2) }

GameTypeKeys == { GAME_TYPES[i] : i \in 1..Len(GAME_TYPES) }

\* base_file = f"{username}/base/{game_type}"
BaseFile(username, game_type) == <<username, "base", game_type>>

\* Mutant of AdvFile: the category is left out of the file name.
AdvFileShared(username, game_type) == <<username, "advanced", "qm">>

\* adv_file = f"{username}/advanced/{game_type}"
AdvFile(username, game_type) == <<username, "advanced", game_type>>

Paths == { BaseFile(u, g) : u \in Usernames, g \in GameTypeKeys }
           \cup { AdvFile(u, g) : u \in Usernames, g \in GameTypeKeys }

(* ------------------------------------------------------------------------ *)
(* File contents and JSON                                                   *)
(* ------------------------------------------------------------------------ *)

\* A path that does not exist on disk.
Absent == [k |-> "absent", obj |-> <<>>]

\* A file of zero bytes: what open(path, "w") or open(path, "a+") leaves.
EmptyText == [k |-> "empty", obj |-> <<>>]

\* A file whose text is not JSON (the literal text `not json`).
Garbage == [k |-> "garbage", obj |-> <<>>]

\* json.dump(obj, fp): the file holds the JSON text of obj.
JsonDump(obj) == [k |-> "json", obj |-> obj]

\* Mutant of Exists: a file that does not parse counts as missing.
ExistsParseable(content) == content.k = "json"

\* Mutant of Exists: a file holding the empty mapping counts as missing.
ExistsNonEmpty(content) ==
    content.k # "absent" /\ ~(content.k = "json" /\ DOMAIN content.obj = {})

\* os.path.exists(path) and os.path.isfile(path)
Exists(content) == content.k # "absent"

\* json.load(fd) succeeds: empty text and garbage raise JSONDecodeError,
\* a missing path raises FileNotFoundError.
JsonParses(content) == content.k = "json"

\* json.load(fd) / json.loads(text) of a parseable text.
JsonLoad(content) == content.obj

\* The empty dict().
EmptyDict == <<>>

\* adv_json[replay_id] = value
DictPut(dict, key, value) == (key :> value) @@ dict

(* ------------------------------------------------------------------------ *)
(* The remote API                                                           *)
(* ------------------------------------------------------------------------ *)

\* Replay identifiers the remote knows, as JSON strings.
IdPool == <<"r1", "r2", "r3", "r4">>

\* The body of a successful answer of <base_url>/Player/Replays for one handle
\* and one category: a mapping from the category label to replay identifiers.
\* Handle b#2 has a listing that repeats an identifier (qm) and empty lists;
\* the other handles have a listing of distinct identifiers (qm), empty lists
\* (sl, aram) and an empty mapping (ud).
RemoteListing(battletag, game_type) ==
    IF battletag = TagB2
    THEN IF game_type = "qm"
         THEN GameTypeLabel(game_type) :> <<"b1", "b1">>
         ELSE GameTypeLabel(game_type) :> <<>>
    ELSE CASE game_type = "qm"   -> GameTypeLabel(game_type) :> SubSeq(IdPool, 1, MaxListing)
           [] game_type = "sl"   -> GameTypeLabel(game_type) :> <<>>
           [] game_type = "ud"   -> EmptyDict
           [] game_type = "aram" -> GameTypeLabel(game_type) :> <<>>

ReplayIds == { IdPool[i] : i \in 1..Len(IdPool) } \cup {"b1"}

\* A transport failure: requests.get raises instead of returning a response.
Transport == [st |-> 0, body |-> "transport"]

\* No answer chosen yet for a request.
Undecided == [st |-> 0, body |-> "undecided"]

\* What a listing request can come back with: status and kind of body. For
\* one handle and category the remote may also answer 200 with a JSON object
\* that lacks the category's label.
ListingOutcomes(tag, gt) ==
    { [st |-> 200, body |-> "json"], [st |-> 200, body |-> "garbage"],
      [st |-> 204, body |-> "none"], [st |-> 500, body |-> "error"], Transport }
    \cup (IF tag = TagB2 /\ gt = "sl" THEN {[st |-> 200, body |-> "nolabel"]} ELSE {})

\* res.json() of a listing answer with a JSON body: the listing, or, for a body
\* of kind "nolabel", a JSON object that lacks the category's label.
ListingBody(outcome, tag, gt) ==
    IF outcome.body = "json" THEN RemoteListing(tag, gt)
    ELSE "message" :> <<"no replays">>

\* What a detail request can come back with.
DetailOutcomes ==
    { [st |-> 200, body |-> "record"], [st |-> 200, body |-> "nokey"],
      [st |-> 204, body |-> "none"], [st |-> 500, body |-> "error"], Transport }

\* The detail payload the remote holds for a replay at content version v.
Payload(replay_id, v) == <<replay_id, v>>

\* res.json() of a detail answer: a mapping with the single key replay_id,
\* or, for a body of kind "nokey", a mapping without that key.
DetailBody(outcome, replay_id, v) ==
    IF outcome.body = "record" THEN replay_id :> Payload(replay_id, v)
    ELSE "error" :> <<"error", v>>

TagIndexes == 1..2

ListKey(t, game_type) == <<"list", t, game_type>>
\* A detail request carries mode, api_token and replayID only, which are the
\* same for every battle tag: the request is identified by the replay id.
DetailKey(replay_id) == <<"detail", 0, replay_id>>

RemoteKeys == { ListKey(t, g) : t \in TagIndexes, g \in GameTypeKeys }
              \cup { DetailKey(r) : r \in ReplayIds }

(* ------------------------------------------------------------------------ *)
(* config.yml and BattleTags.setup_battle_tags_from_config                  *)
(* ------------------------------------------------------------------------ *)

\* The properties setup_battle_tags_from_config resolves, in loop order.
Properties == <<"api_token_path", "base_url", "mode", "region", "game_type">>

PropertyNames == { Properties[i] : i \in 1..Len(Properties) }

\* The value of an attribute that was never set. Texts are sequences of
\* single characters, so no text equals it.
None == <<"None">>

\* The credential files on disk: path -> text; any other path is no file.
TokenFiles ==
    (<<"/", "a">> :> <<" ", "t", "a", "\n">>) @@ (<<"/", "b">> :> <<"t", "b", "\n">>)

Whitespace == {" ", "\n", "\t"}

RECURSIVE LStrip(_)
\* s without its leading whitespace.
LStrip(s) ==
    IF s # <<>> /\ Head(s) \in Whitespace THEN LStrip(Tail(s)) ELSE s

RECURSIVE RStrip(_)
\* s without its trailing whitespace.
RStrip(s) ==
    IF s # <<>> /\ s[Len(s)] \in Whitespace
    THEN RStrip(SubSeq(s, 1, Len(s) - 1)) ELSE s

\* fd.read().strip()
Strip(s) == RStrip(LStrip(s))

\* A section or block that the parsed configuration does not have.
NoSection == [has |-> FALSE, val |-> <<>>]

\* A general section, or an override block, holding the mapping val.
Section(val) == [has |-> TRUE, val |-> val]

\* The options of the general section.
GeneralValues ==
    [p \in PropertyNames |->
        CASE p = "api_token_path" -> <<"/", "a">>
          [] p = "base_url"       -> <<"u", "1">>
          [] p = "mode"           -> <<"m", "1">>
          [] p = "region"         -> <<"1">>
          [] p = "game_type"      -> <<"a", "l", "l">>]

\* The options a per-identity override block can give.
OverrideValues ==
    [p \in PropertyNames |->
        CASE p = "api_token_path" -> <<"/", "b">>
          [] p = "base_url"       -> <<"u", "2">>
          [] p = "mode"           -> <<"m", "2">>
          [] p = "region"         -> <<"2">>
          [] p = "game_type"      -> <<"q", "m">>]

\* The mapping f restricted to the keys in S.
Restrict(f, S) == [p \in S |-> f[p]]

\* The general sections explored: every option, every option but the
\* credential path, or no general section at all.
Generals ==
    { Section(GeneralValues),
      Section(Restrict(GeneralValues, PropertyNames \ {"api_token_path"})),
      NoSection }

\* The override blocks explored: none, one option, or every option.
OverrideBlocks ==
    { Restrict(OverrideValues, S) :
        S \in {{}} \cup { {p} : p \in PropertyNames } \cup {PropertyNames} }

\* One entry of the battle_tags section, as the loop variable `tag` sees it:
\*   "str"  a bare handle, or a key of a battle_tags mapping whose value is
\*          the override block;
\*   "dict" a list item that is a one-key mapping handle -> override block;
\*   "list" a list item that is a list: the handle followed by option names.
Entry(type, handle, block) == [type |-> type, handle |-> handle, block |-> block]

\* A battle_tags section: form "seq" (a YAML sequence) or "map" (a YAML
\* mapping from handle to override block), with its entries in order.
TagsSection(form, items) == [has |-> TRUE, form |-> form, items |-> items]

NoTagsSection == [has |-> FALSE, form |-> "seq", items |-> <<>>]

\* The configuration whose battle_tags is the plain list of handles `tags`.
PlainConfig(tags) ==
    [general |-> Section(GeneralValues),
     battle_tags |-> TagsSection("seq",
                        [i \in 1..Len(tags) |-> Entry("str", tags[i], <<>>)])]

\* The battle_tags sections with one identity explored by the resolver.
OneTagSections ==
    { TagsSection("seq", <<Entry("str", TagA1, <<>>)>>) }
    \cup { TagsSection("map", <<Entry("str", TagA1, b)>>) : b \in OverrideBlocks }
    \cup { TagsSection("seq", <<Entry("dict", TagA1, b)>>) : b \in OverrideBlocks }
    \cup { TagsSection("seq", <<Entry("list", TagA1, b)>>) : b \in OverrideBlocks }

\* `ppty in tag` for a list item: the list names the option.
ListHas(entry, ppty) == ppty \in DOMAIN entry.block

\* BattleTag(tag): every attribute but battletag is None. battletag_type is
\* the Python type of self.battletag.
NewBattleTag(entry) ==
    [battletag |-> entry.handle, battletag_type |-> entry.type,
     api_token |-> None, api_token_path |-> None, base_url |-> None,
     mode |-> None, region |-> None, game_type |-> None]

\* The outcome of resolving: the object so far and the error raised, if any.
Resolved(obj, err) == [obj |-> obj, err |-> err]

\* Lines 193-200 for one property: the general value if the general section
\* has it; the override only for a `tag` that is a list naming the property,
\* where indexing battle_tags by that list raises TypeError; for
\* api_token_path the credential file is read into api_token at once.
SetProperty(obj, entry, general, ppty) ==
    LET o1 == IF ppty \in DOMAIN general.val
              THEN [obj EXCEPT ![ppty] = general.val[ppty]] ELSE obj
    IN  IF entry.type = "list" /\ ListHas(entry, ppty)
        THEN Resolved(o1, "TypeError")
        ELSE IF ppty # "api_token_path" THEN Resolved(o1, "none")
        ELSE IF o1.api_token_path = None THEN Resolved(o1, "TypeError")
        ELSE IF o1.api_token_path \notin DOMAIN TokenFiles
        THEN Resolved(o1, "AssertionError")
        ELSE Resolved([o1 EXCEPT !.api_token = Strip(TokenFiles[o1.api_token_path])],
                      "none")

RECURSIVE SetProperties(_, _, _, _)
\* The loop over the properties from position i on; stops at the first error.
SetProperties(obj, entry, general, i) ==
    IF i > Len(Properties) THEN Resolved(obj, "none")
    ELSE LET r == SetProperty(obj, entry, general, Properties[i])
         IN  IF r.err # "none" THEN r
             ELSE SetProperties(r.obj, entry, general, i + 1)

\* The outcome of setup_battle_tags_from_config: the battle_tags list built
\* and the error that ended it, if any.
Setup(tags, err) == [tags |-> tags, err |-> err]

RECURSIVE SetupTags(_, _, _, _)
\* The loop over the battle_tags entries from position i on. The object is
\* appended to the list before its properties are set.
SetupTags(done, items, general, i) ==
    IF i > Len(items) THEN Setup(done, "none")
    ELSE LET r == SetProperties(NewBattleTag(items[i]), items[i], general, 1)
         IN  IF r.err # "none" THEN Setup(Append(done, r.obj), r.err)
             ELSE SetupTags(Append(done, r.obj), items, general, i + 1)

\* Mutant of SetupBattleTagsFromConfig: the general section is not asserted.
SetupGeneralOptional(config) ==
    SetupTags(<<>>, IF config.battle_tags.has THEN config.battle_tags.items
                    ELSE <<>>,
              config.general, 1)

\* setup_battle_tags_from_config: the assert on the general section, then the
\* loop over config_content.get("battle_tags", []).
SetupBattleTagsFromConfig(config) ==
    IF ~config.general.has THEN Setup(<<>>, "AssertionError")
    ELSE SetupTags(<<>>, IF config.battle_tags.has THEN config.battle_tags.items
                         ELSE <<>>,
                   config.general, 1)

\* The configurations the download is explored with: the plain lists of
\* handles, and the configurations that lack the general section, the
\* battle_tags section, or both.
MainConfigs ==
    { PlainConfig(tags) : tags \in Configs }
    \cup { [general |-> NoSection, battle_tags |-> PlainConfig(<<TagA1>>).battle_tags],
           [general |-> Section(GeneralValues), battle_tags |-> NoTagsSection],
           [general |-> NoSection, battle_tags |-> NoTagsSection] }

\* The configurations the resolver is explored with.
ResolverConfigs ==
    MainConfigs
    \cup { [general |-> g, battle_tags |-> b] :
             g \in Generals, b \in OneTagSections \cup {NoTagsSection} }

(* ------------------------------------------------------------------------ *)
(* State                                                                    *)
(* ------------------------------------------------------------------------ *)

VARIABLES
    config_content, \* BattleTags.config_content: the parsed config.yml
    battle_tags,   \* BattleTags.battle_tags: the BattleTag objects, in order
    files,         \* the cache files: path -> content
    pc,            \* where the run is: idle, base, adv_open, adv_loop, adv_dump,
                   \* adv_report, adv_empty, done, crashed, exited
    tag_i,         \* index of the battle tag being processed
    gt_i,          \* index into GAME_TYPES of the category being processed
    listing,       \* base_json[GAME_TYPES[game_type]], the list being iterated
    idx,           \* position of the for loop over the listing
    adv_json,      \* the in-memory Advanced Record Set
    replays_cnt,   \* the per-category fetched count
    cause,         \* why the run ended abnormally
    reported,      \* the last count report logged by Phase 2
    remote,        \* the remote's latest answers: request key -> outcome
    ver,           \* version of the remote's content
    stable,        \* the remote answers as it did in the previous run
    runs,          \* number of runs started
    at_start,      \* the cache files as they were when the run started
    log,           \* the requests and file writes of the current run
    pass_start,    \* adv_json as loaded at the start of the current pass
    ok_count,      \* successful detail requests per (username, category, id)
    resume_k,      \* per (username, category): k if the last pass started
                   \* empty, fetched k records and then got a non-2xx; else -1
    failed_listing \* <<tag index, category>> of the listing request that ended
                   \* the previous run with a non-2xx status, or <<>>

vars == <<config_content, battle_tags, files, pc, tag_i, gt_i, listing, idx, adv_json,
          replays_cnt, cause, reported, remote, ver, stable, runs, at_start,
          log, pass_start, ok_count, resume_k, failed_listing>>

prog == <<listing, idx, adv_json, replays_cnt>>
hist == <<pass_start, ok_count, resume_k, failed_listing>>

battletag == battle_tags[tag_i].battletag
game_type == GAME_TYPES[gt_i]
username == Username(battletag)
base_file == BaseFile(username, game_type)
adv_file == AdvFile(username, game_type)

\* One entry of the run's log: what was done (p1/p2: Phase 1/2 of a category
\* is entered; list/detail: a request; wbase/open_w/dump: a file write), for
\* which battle tag and category, and for a request its identifier and answer.
Event(op, id, outcome) == <<op, tag_i, game_type, id, outcome.st, outcome.body>>

EvOp(e) == e[1]
EvTag(e) == e[2]
EvGt(e) == e[3]
EvId(e) == e[4]
EvSt(e) == e[5]
EvBody(e) == e[6]

NoOutcome == [st |-> 0, body |-> "-"]

EmptyDisk == [p \in Paths |-> Absent]

\* The cache directories before the first run: empty, or holding one
\* base-listing cache file, put there from outside, whose text is not JSON.
InitialDisks ==
    { EmptyDisk,
      [EmptyDisk EXCEPT ![BaseFile(Username(TagA1), "sl")] = Garbage] }

\* Before the first run: no process has run.
FirstStart ==
    /\ battle_tags = <<>>
    /\ files \in InitialDisks
    /\ pc = "idle"
    /\ tag_i = 1
    /\ gt_i = 1
    /\ listing = <<>>
    /\ idx = 1
    /\ adv_json = EmptyDict
    /\ replays_cnt = 0
    /\ cause = "none"
    /\ reported = "none"
    /\ remote = [key \in RemoteKeys |-> Undecided]
    /\ ver = 1
    /\ stable = FALSE
    /\ runs = 0
    /\ at_start = files
    /\ log = <<>>
    /\ pass_start = EmptyDict
    /\ ok_count = [u \in Usernames |-> [g \in GameTypeKeys |-> [r \in ReplayIds |-> 0]]]
    /\ resume_k = [u \in Usernames |-> [g \in GameTypeKeys |-> -1]]
    /\ failed_listing = <<>>

Init ==
    /\ config_content \in MainConfigs
    /\ FirstStart

(* ------------------------------------------------------------------------ *)
(* The environment: one answer of the remote                                *)
(* ------------------------------------------------------------------------ *)

\* The remote answers request `key` with `outcome`. In a run in which the
\* remote answers as in the previous run, that is its latest answer to the
\* same request, if it has given one.
Answers(key, outcome) ==
    /\ stable => remote[key] \in {Undecided, outcome}
    /\ remote' = [remote EXCEPT ![key] = outcome]

(* ------------------------------------------------------------------------ *)
(* BattleTags.download_advanced_replays: the run                            *)
(* ------------------------------------------------------------------------ *)

\* The last thing the run did was a listing request that was answered with a
\* status outside 2xx.
LastIsRejectedListing ==
    /\ log # <<>>
    /\ EvOp(log[Len(log)]) = "list"
    /\ EvBody(log[Len(log)]) # "transport"
    /\ (EvSt(log[Len(log)]) < 200 \/ EvSt(log[Len(log)]) >= 300)

\* Line 56, on entering download_base_replays of a BattleTag: split('#') of a
\* battletag that is not a string raises AttributeError.
EnterTag(tag_obj) ==
    IF tag_obj.battletag_type = "str"
    THEN pc' = "base" /\ cause' = "none"
    ELSE pc' = "crashed" /\ cause' = "AttributeError"

\* The process is started (again): read_config, setup_battle_tags_from_config
\* and the first battle tag's download_base_replays is entered. The remote either still answers as in the
\* previous run or its content has changed in between.
StartRun ==
    /\ pc \in {"idle", "done", "crashed", "exited"}
    /\ runs < MaxRuns
    /\ runs' = runs + 1
    /\ \/ /\ runs > 0
          /\ stable' = TRUE
          /\ UNCHANGED <<remote, ver>>
       \/ /\ stable' = FALSE
          /\ remote' = [key \in RemoteKeys |-> Undecided]
          /\ ver' = IF runs = 0 THEN ver ELSE 3 - ver
    /\ LET setup == SetupBattleTagsFromConfig(config_content) IN
          /\ battle_tags' = setup.tags
          /\ IF setup.err # "none"
             THEN pc' = "crashed" /\ cause' = setup.err
             ELSE IF setup.tags = <<>>
             THEN pc' = "done" /\ cause' = "none"
             ELSE EnterTag(setup.tags[1])
    /\ tag_i' = 1
    /\ gt_i' = 1
    /\ listing' = <<>>
    /\ idx' = 1
    /\ adv_json' = EmptyDict
    /\ replays_cnt' = 0
    /\ reported' = "none"
    /\ at_start' = files
    /\ log' = <<>>
    /\ pass_start' = EmptyDict
    /\ failed_listing' = IF pc = "crashed" /\ LastIsRejectedListing
                         THEN <<tag_i, game_type>> ELSE <<>>
    /\ UNCHANGED <<config_content, files, ok_count, resume_k>>

\* The run ends abnormally (uncaught exception or sys.exit(1)).
Abort(how, why) ==
    /\ pc' = how
    /\ cause' = why
    /\ UNCHANGED <<tag_i, gt_i>>

(* ------------------------------------------------------------------------ *)
(* BattleTag.download_base_replays: Phase 1, one category per step          *)
(* ------------------------------------------------------------------------ *)

\* Mutant of BaseAdvance: Phase 2 is entered after each category of Phase 1.
BaseAdvanceInterleaved ==
    /\ pc' = "adv_open"
    /\ UNCHANGED <<tag_i, gt_i>>

\* After the last category of Phase 1 comes Phase 2 of the same battle tag.
BaseAdvance ==
    IF gt_i < Len(GAME_TYPES)
    THEN /\ gt_i' = gt_i + 1
         /\ pc' = "base"
         /\ UNCHANGED tag_i
    ELSE /\ gt_i' = 1
         /\ pc' = "adv_open"
         /\ UNCHANGED tag_i

\* Mutant of BaseVerify: the cache file is not parsed after Phase 1.
BaseVerifySkipped(content) == BaseAdvance /\ UNCHANGED cause

\* The try block that re-opens base_file and parses it; sys.exit(1) on failure.
BaseVerify(content) ==
    IF JsonParses(content)
    THEN BaseAdvance /\ UNCHANGED cause
    ELSE Abort("exited", "corrupt")

\* The cache file exists: no request, only the parse check.
BaseCached ==
    /\ pc = "base"
    /\ Exists(files[base_file])
    /\ BaseVerify(files[base_file])
    /\ log' = Append(log, Event("p1", "-", NoOutcome))
    /\ UNCHANGED <<config_content, battle_tags, files, prog, reported, remote, ver, stable,
                   runs, at_start, hist>>

\* Mutant of ListingRejected: base_file is opened for writing before the
\* status is asserted.
ListingRejectedAfterOpen(outcome) ==
    /\ Abort("crashed", "assert")
    /\ log' = log \o <<Event("p1", "-", NoOutcome), Event("list", "-", outcome),
                       Event("wbase", "-", NoOutcome)>>
    /\ files' = [files EXCEPT ![base_file] = EmptyText]

\* Line 70: the assert fails on a status other than 200, before base_file is
\* opened: the run ends and no file is left behind.
ListingRejected(outcome) ==
    /\ Abort("crashed", "assert")
    /\ log' = log \o <<Event("p1", "-", NoOutcome), Event("list", "-", outcome)>>
    /\ UNCHANGED files

\* The cache file is missing: one listing request. A status other than 200
\* fails the assert; a transport failure raises out of requests.get; a body
\* that is not JSON raises out of res.json() after open(base_file, "w").
BaseDownload ==
    /\ pc = "base"
    /\ ~Exists(files[base_file])
    /\ \E outcome \in ListingOutcomes(battletag, game_type) :
          /\ Answers(ListKey(tag_i, game_type), outcome)
          /\ IF outcome = Transport
             THEN /\ Abort("crashed", "transport")
                  /\ log' = log \o <<Event("p1", "-", NoOutcome),
                                     Event("list", "-", outcome)>>
                  /\ UNCHANGED files
             ELSE IF ~StatusOk(outcome.st)
             THEN ListingRejected(outcome)
             ELSE IF outcome.body = "garbage"
             THEN /\ Abort("crashed", "badjson")
                  /\ log' = log \o <<Event("p1", "-", NoOutcome),
                                     Event("list", "-", outcome),
                                     Event("wbase", "-", NoOutcome)>>
                  /\ files' = [files EXCEPT ![base_file] = EmptyText]
             ELSE /\ files' = [files EXCEPT ![base_file] =
                                   JsonDump(ListingBody(outcome, battletag, game_type))]
                  /\ log' = log \o <<Event("p1", "-", NoOutcome),
                                     Event("list", "-", outcome),
                                     Event("wbase", "-", NoOutcome)>>
                  /\ BaseVerify(files'[base_file])
    /\ UNCHANGED <<config_content, battle_tags, prog, reported, ver, stable, runs, at_start, hist>>

(* ------------------------------------------------------------------------ *)
(* BattleTag.download_advanced_replays: Phase 2                             *)
(* ------------------------------------------------------------------------ *)

\* After a category of Phase 2: the next category, the next battle tag's
\* Phase 1, or the end of the run.
AdvAdvance ==
    IF gt_i < Len(GAME_TYPES)
    THEN /\ gt_i' = gt_i + 1
         /\ pc' = "adv_open"
         /\ UNCHANGED <<tag_i, cause>>
    ELSE IF tag_i < Len(battle_tags)
    THEN /\ tag_i' = tag_i + 1
         /\ gt_i' = 1
         /\ EnterTag(battle_tags[tag_i + 1])
    ELSE /\ pc' = "done"
         /\ UNCHANGED <<tag_i, gt_i, cause>>

\* Mutant of AdvLoaded: the records on disk are not loaded.
AdvLoadedNothing(content) == EmptyDict

\* The first with block: the Advanced Record Set currently on disk; an absent
\* or empty file gives dict().
AdvLoaded(content) ==
    IF content.k \in {"absent", "empty"} THEN EmptyDict ELSE JsonLoad(content)

\* `not base_json`: the parsed base listing is an empty mapping.
Falsy(base_json) == DOMAIN base_json = {}

\* The pass over (username, game_type) did not end in a resumable stop.
NoResume == [resume_k EXCEPT ![username][game_type] = -1]

\* Lines 96-112: load adv_json (creating adv_file if missing), open base_file
\* and then adv_file for writing (which truncates it), parse base_file, and
\* either write adv_json back at once (empty mapping), fail on the missing
\* label, or enter the loop over the listing.
AdvOpen ==
    /\ pc = "adv_open"
    /\ replays_cnt' = 0
    /\ idx' = 1
    /\ UNCHANGED <<config_content, battle_tags, reported, remote, ver, stable, runs, at_start,
                   ok_count, failed_listing>>
    /\ IF files[adv_file].k = "garbage"
       THEN \* json.loads(adv_json) raises
            /\ Abort("crashed", "adv_corrupt")
            /\ resume_k' = NoResume
            /\ log' = Append(log, Event("p2", "-", NoOutcome))
            /\ UNCHANGED <<files, listing, adv_json, pass_start>>
       ELSE LET loaded == AdvLoaded(files[adv_file])
                base == files[base_file]
                label == GameTypeLabel(game_type)
            IN  /\ adv_json' = loaded
                /\ pass_start' = loaded
                /\ IF ~Exists(base)
                   THEN \* open(base_file, "r") raises before adv_file is reopened
                        /\ Abort("crashed", "base_missing")
                        /\ resume_k' = NoResume
                        /\ files' = [files EXCEPT ![adv_file] =
                                        IF Exists(@) THEN @ ELSE EmptyText]
                        /\ log' = Append(log, Event("p2", "-", NoOutcome))
                        /\ UNCHANGED listing
                   ELSE IF ~JsonParses(base)
                   THEN \* json.load(fdb) raises
                        /\ Abort("crashed", "base_corrupt")
                        /\ resume_k' = NoResume
                        /\ files' = [files EXCEPT ![adv_file] = EmptyText]
                        /\ log' = log \o <<Event("p2", "-", NoOutcome),
                                           Event("open_w", "-", NoOutcome)>>
                        /\ UNCHANGED listing
                   ELSE IF Falsy(JsonLoad(base))
                   THEN /\ files' = [files EXCEPT ![adv_file] = JsonDump(loaded)]
                        /\ log' = log \o <<Event("p2", "-", NoOutcome),
                                           Event("open_w", "-", NoOutcome),
                                           Event("dump", "-", NoOutcome)>>
                        /\ pc' = "adv_empty"
                        /\ resume_k' = NoResume
                        /\ UNCHANGED <<tag_i, gt_i, cause, listing>>
                   ELSE IF label \notin DOMAIN JsonLoad(base)
                   THEN \* base_json[GAME_TYPES[game_type]] raises KeyError
                        /\ files' = [files EXCEPT ![adv_file] = EmptyText]
                        /\ log' = log \o <<Event("p2", "-", NoOutcome),
                                           Event("open_w", "-", NoOutcome)>>
                        /\ Abort("crashed", "keyerror_label")
                        /\ resume_k' = NoResume
                        /\ UNCHANGED listing
                   ELSE /\ files' = [files EXCEPT ![adv_file] = EmptyText]
                        /\ log' = log \o <<Event("p2", "-", NoOutcome),
                                           Event("open_w", "-", NoOutcome)>>
                        /\ listing' = JsonLoad(base)[label]
                        /\ pc' = IF Len(listing') = 0 THEN "adv_dump" ELSE "adv_loop"
                        /\ UNCHANGED <<tag_i, gt_i, cause, resume_k>>

\* Line 110: `continue` after the "No replays exist" message.
AdvContinue ==
    /\ pc = "adv_empty"
    /\ AdvAdvance
    /\ UNCHANGED <<config_content, battle_tags, files, prog, reported, remote, ver,
                   stable, runs, at_start, log, hist>>

\* The loop goes to the next identifier, or ends after the last one.
LoopNext ==
    /\ idx' = idx + 1
    /\ pc' = IF idx < Len(listing) THEN "adv_loop" ELSE "adv_dump"
    /\ UNCHANGED <<tag_i, gt_i, cause>>

\* Mutant of Known: no identifier is ever skipped.
KnownNever(replay_id, dict) == FALSE

\* Line 113: replay_id is already a key of adv_json.
Known(replay_id, dict) == replay_id \in DOMAIN dict

\* Lines 113-114: an identifier already in adv_json is skipped.
AdvSkip ==
    /\ pc = "adv_loop"
    /\ Known(listing[idx], adv_json)
    /\ LoopNext
    /\ UNCHANGED <<config_content, battle_tags, files, listing, adv_json, replays_cnt, reported,
                   remote, ver, stable, runs, at_start, log, hist>>

\* Mutant of DetailError: the failed detail request ends the run.
DetailErrorFatal ==
    /\ Abort("crashed", "detail")
    /\ UNCHANGED <<idx, adv_json, replays_cnt, ok_count, resume_k>>

\* Lines 126-129: a status other than 200 is logged as an error and the loop
\* over the listing is left by `break`.
DetailError ==
    /\ pc' = "adv_dump"
    /\ UNCHANGED <<tag_i, gt_i, cause, idx, adv_json, replays_cnt, ok_count,
                   resume_k>>

\* Lines 115-129: one detail request and what the code does with the answer.
AdvFetch ==
    /\ pc = "adv_loop"
    /\ ~Known(listing[idx], adv_json)
    /\ LET replay_id == listing[idx] IN
       \E outcome \in DetailOutcomes :
          /\ Answers(DetailKey(replay_id), outcome)
          /\ log' = Append(log, Event("detail", replay_id, outcome))
          /\ IF outcome = Transport
             THEN /\ Abort("crashed", "transport")
                  /\ resume_k' = NoResume
                  /\ UNCHANGED <<idx, adv_json, replays_cnt, ok_count>>
             ELSE IF ~StatusOk(outcome.st)
             THEN DetailError
             ELSE LET res_json == DetailBody(outcome, replay_id, ver) IN
                  IF replay_id \notin DOMAIN res_json
                  THEN \* res.json()[replay_id] raises KeyError
                       /\ Abort("crashed", "keyerror_id")
                       /\ resume_k' = NoResume
                       /\ UNCHANGED <<idx, adv_json, replays_cnt, ok_count>>
                  ELSE /\ adv_json' = DictPut(adv_json, replay_id, res_json[replay_id])
                       /\ replays_cnt' = replays_cnt + 1
                       /\ ok_count' = [ok_count EXCEPT ![username][game_type][replay_id] =
                                          IF @ < 2 THEN @ + 1 ELSE @]
                       /\ LoopNext
                       /\ UNCHANGED resume_k
    /\ UNCHANGED <<config_content, battle_tags, files, listing, reported, ver, stable, runs,
                   at_start, pass_start, failed_listing>>

\* The pass that is ending started from an empty record set, fetched k
\* records and then stopped on a non-2xx answer: k; otherwise -1.
PassResume ==
    LET reqs == SelectSeq(log, LAMBDA e : EvOp(e) = "detail" /\ EvTag(e) = tag_i /\ EvGt(e) = game_type)
        n == Len(reqs)
    IN  IF /\ DOMAIN pass_start = {}
           /\ n > 0
           /\ ~Is2xx(EvSt(reqs[n]))
           /\ EvBody(reqs[n]) # "transport"
           /\ \A i \in 1..(n - 1) : StatusOk(EvSt(reqs[i]))
        THEN n - 1
        ELSE -1

\* Line 131: json.dump(obj=adv_json, fp=fda), after the loop ended or broke.
AdvDump ==
    /\ pc = "adv_dump"
    /\ files' = [files EXCEPT ![adv_file] = JsonDump(adv_json)]
    /\ log' = Append(log, Event("dump", "-", NoOutcome))
    /\ resume_k' = [resume_k EXCEPT ![username][game_type] = PassResume]
    /\ pc' = "adv_report"
    /\ UNCHANGED <<config_content, battle_tags, tag_i, gt_i, prog, cause, reported, remote, ver,
                   stable, runs, at_start, pass_start, ok_count, failed_listing>>

\* Lines 132-135: the count report, then the next category.
AdvReport ==
    /\ pc = "adv_report"
    /\ reported' = IF replays_cnt = 0 THEN "all_downloaded" ELSE "downloaded"
    /\ AdvAdvance
    /\ UNCHANGED <<config_content, battle_tags, files, prog, remote, ver, stable, runs,
                   at_start, log, hist>>

Next ==
    \/ StartRun
    \/ BaseCached
    \/ BaseDownload
    \/ AdvOpen
    \/ AdvContinue
    \/ AdvSkip
    \/ AdvFetch
    \/ AdvDump
    \/ AdvReport

Spec == Init /\ [][Next]_vars

\* The resolver on its own: every configuration explored, and the start of
\* the process, which resolves it, as the only step.
InitConfig ==
    /\ config_content \in ResolverConfigs
    /\ FirstStart

NextConfig == StartRun

SpecConfig == InitConfig /\ [][NextConfig]_vars

(* ------------------------------------------------------------------------ *)
(* Reading the run's log                                                    *)
(* ------------------------------------------------------------------------ *)

\* The detail requests of the current run for battle tag t and category g.
PassReqs(t, g) ==
    SelectSeq(log, LAMBDA e : EvOp(e) = "detail" /\ EvTag(e) = t /\ EvGt(e) = g)

\* The identifiers a sequence of detail requests asked for.
Ids(reqs) == [i \in 1..Len(reqs) |-> EvId(reqs[i])]

\* A response (not a transport failure) whose status is outside 2xx.
Non2xx(e) == EvBody(e) # "transport" /\ ~Is2xx(EvSt(e))

\* A detail request the code counted as fetched.
Fetched(e) == EvOp(e) = "detail" /\ StatusOk(EvSt(e)) /\ EvBody(e) = "record"

\* The log entries that are Phase 2 work.
Phase2Ops == {"p2", "detail", "open_w", "dump"}

\* The username whose files a log entry is about.
EventUser(e) == Username(battle_tags[EvTag(e)].battletag)

Distinct(seq) == \A i, j \in 1..Len(seq) : seq[i] = seq[j] => i = j

Range(seq) == { seq[i] : i \in 1..Len(seq) }

\* The run has ended, normally or not.
Ended == pc \in {"done", "crashed", "exited"}

(* ------------------------------------------------------------------------ *)
(* C1                                                                       *)
(* ------------------------------------------------------------------------ *)

\* The records of the first k identifiers of a listing, fetched at version v.
FirstRecords(lst, k, v) == [r \in { lst[i] : i \in 1..k } |-> Payload(r, v)]

\* C1: resume after partial failure. For a listing of n distinct identifiers
\* and an advanced cache that starts empty: when the first k detail requests
\* of a pass are answered 200 and the next one gets a non-2xx status, the
\* advanced cache file then holds exactly the first k records; and a following
\* pass in which every request succeeds asks for exactly the remaining n-k
\* identifiers, in listing order.
C1_ResumeAfterPartialFailure ==
    LET k == resume_k[username][game_type]
        reqs == PassReqs(tag_i, game_type)
    IN  /\ (pc = "adv_report" /\ Distinct(listing) /\ k >= 0)
              => files[adv_file] = JsonDump(FirstRecords(listing, k, ver))
        /\ (/\ pc = "adv_dump"
            /\ Distinct(listing)
            /\ k >= 0
            /\ \A i \in 1..Len(reqs) : Fetched(reqs[i]))
              => Ids(reqs) = SubSeq(listing, k + 1, Len(listing))

\* A second pass that resumes after one record was fetched and the next failed.
C1_Witness ==
    /\ runs = 2
    /\ pc = "adv_dump"
    /\ Len(listing) >= 2
    /\ Distinct(listing)
    /\ resume_k[username][game_type] = 1
    /\ Len(PassReqs(tag_i, game_type)) = Len(listing) - 1
    /\ \A i \in 1..Len(PassReqs(tag_i, game_type)) : Fetched(PassReqs(tag_i, game_type)[i])

(* ------------------------------------------------------------------------ *)
(* C2                                                                       *)
(* ------------------------------------------------------------------------ *)

\* C2: existing advanced records are never lost or overwritten. When Phase 2
\* of a category has written its file (the loop completed, or stopped on a
\* response the code rejects, or the listing was empty), the file holds every
\* key it held when the run started, each with the payload it had then.
C2_ExistingRecordsKept ==
    pc \in {"adv_report", "adv_empty"} =>
        LET before == AdvLoaded(at_start[adv_file])
            after == files[adv_file]
        IN  /\ JsonParses(after)
            /\ \A r \in DOMAIN before :
                  r \in DOMAIN JsonLoad(after) /\ JsonLoad(after)[r] = before[r]

\* A pass that started with a cached record and stopped on a non-2xx answer.
C2_Witness ==
    /\ pc = "adv_report"
    /\ DOMAIN AdvLoaded(at_start[adv_file]) # {}
    /\ PassReqs(tag_i, game_type) # <<>>
    /\ Non2xx(PassReqs(tag_i, game_type)[Len(PassReqs(tag_i, game_type))])
    /\ ver = 2

(* ------------------------------------------------------------------------ *)
(* C3                                                                       *)
(* ------------------------------------------------------------------------ *)

C3_NoRequestForKnown ==
    \A i \in 1..Len(log) :
        (EvOp(log[i]) = "detail" /\ EvTag(log[i]) = tag_i /\ EvGt(log[i]) = game_type) =>
            /\ EvId(log[i]) \notin DOMAIN pass_start
            /\ \A j \in 1..(i - 1) :
                  ~(Fetched(log[j]) /\ EvTag(log[j]) = tag_i /\ EvGt(log[j]) = game_type
                    /\ EvId(log[j]) = EvId(log[i]))

(* ------------------------------------------------------------------------ *)
(* C4                                                                       *)
(* ------------------------------------------------------------------------ *)

\* C4: idempotence of a whole run. When a run follows another and the remote
\* answers every request as it did in the previous run, the run fetches no
\* record in any category and leaves every cache file as the previous run
\* left it.
C4_RunIdempotent ==
    (runs >= 2 /\ stable /\ Ended) =>
        /\ files = at_start
        /\ \A i \in 1..Len(log) : ~Fetched(log[i])

\* The part of C4 that is about the files only.
C4_FilesIdempotent ==
    (runs >= 2 /\ stable /\ Ended) => files = at_start

\* C4 for runs that no uncaught exception of a detail request cuts short.
C4_IdempotentUnlessRaised ==
    (runs >= 2 /\ stable /\ Ended /\ cause \notin {"transport", "keyerror_id"}) =>
        /\ files = at_start
        /\ \A i \in 1..Len(log) : ~Fetched(log[i])

(* ------------------------------------------------------------------------ *)
(* C5                                                                       *)
(* ------------------------------------------------------------------------ *)

\* C5: base-listing fetch-once. A base-listing cache file that exists when
\* Phase 1 reaches it (from an earlier run, or written earlier in this run),
\* whatever it holds, gets no listing request and keeps its content.
C5_BaseFetchOnce ==
    /\ \A u \in Usernames, g \in GameTypeKeys :
          at_start[BaseFile(u, g)] # Absent =>
              files[BaseFile(u, g)] = at_start[BaseFile(u, g)]
    /\ \A j \in 1..Len(log) :
          EvOp(log[j]) \in {"list", "wbase"} =>
              /\ at_start[BaseFile(EventUser(log[j]), EvGt(log[j]))] = Absent
              /\ \A i \in 1..(j - 1) :
                    ~(/\ EvOp(log[i]) = "wbase"
                      /\ EvOp(log[j]) = "list"
                      /\ EvGt(log[i]) = EvGt(log[j])
                      /\ EventUser(log[i]) = EventUser(log[j]))

\* A later run, with the remote's content changed, has gone through Phase 1
\* over a base file that holds the empty mapping {}.
C5_Witness ==
    /\ runs = 2
    /\ ~stable
    /\ pc = "adv_open"
    /\ tag_i = 1
    /\ at_start[BaseFile(Username(TagA1), "ud")] = JsonDump(EmptyDict)
    /\ \E i \in 1..Len(log) : EvOp(log[i]) = "p1" /\ EvGt(log[i]) = "ud"

(* ------------------------------------------------------------------------ *)
(* C6                                                                       *)
(* ------------------------------------------------------------------------ *)

\* The identifiers of the on-disk Base Listing of (u, g).
BaseIds(u, g) ==
    LET c == files[BaseFile(u, g)] IN
    IF JsonParses(c) /\ GameTypeLabel(g) \in DOMAIN JsonLoad(c)
    THEN Range(JsonLoad(c)[GameTypeLabel(g)])
    ELSE {}

\* The keys of the on-disk Advanced Record Set of (u, g).
AdvKeys(u, g) ==
    LET c == files[AdvFile(u, g)] IN
    IF JsonParses(c) THEN DOMAIN JsonLoad(c) ELSE {}

\* C6: subset invariant. Starting from cache directories that hold no
\* advanced cache file (and at most an unparseable base file), in every
\* reachable state every key of an on-disk Advanced Record Set is an
\* identifier of the on-disk Base Listing of the same username and category.
C6_SubsetInvariant ==
    \A u \in Usernames, g \in GameTypeKeys : AdvKeys(u, g) \subseteq BaseIds(u, g)

\* After two runs with a failure, a partially fetched category.
C6_Witness ==
    /\ runs = 2
    /\ pc = "done"
    /\ AdvKeys(Username(TagA1), "qm") # {}
    /\ AdvKeys(Username(TagA1), "qm") # BaseIds(Username(TagA1), "qm")
    /\ JsonParses(files[AdvFile(Username(TagA1), "ud")])

(* ------------------------------------------------------------------------ *)
(* C7                                                                       *)
(* ------------------------------------------------------------------------ *)

\* C7: a listing failure is fatal for the whole run. A listing request that
\* is answered with a non-2xx status is the last thing the run does: the run
\* has ended abnormally at that battle tag and category, with no request and
\* no cache-file write after it.
C7_ListingFailureFatal ==
    \A i \in 1..Len(log) :
        (EvOp(log[i]) = "list" /\ Non2xx(log[i])) =>
            /\ i = Len(log)
            /\ pc = "crashed"
            /\ tag_i = EvTag(log[i])
            /\ game_type = EvGt(log[i])
            /\ files[base_file] = Absent

\* The listing of a category fails while later categories and a later battle
\* tag are still to come.
C7_Witness ==
    /\ pc = "crashed"
    /\ cause = "assert"
    /\ Len(battle_tags) = 2
    /\ tag_i = 1
    /\ gt_i = 2
    /\ EvOp(log[Len(log)]) = "list"
    /\ EvSt(log[Len(log)]) = 500

(* ------------------------------------------------------------------------ *)
(* C8                                                                       *)
(* ------------------------------------------------------------------------ *)

\* Entry e is the first step of the category that follows (t, g) in the run.
VisitsSuccessor(e, t, g) ==
    IF g # GAME_TYPES[Len(GAME_TYPES)]
    THEN /\ EvOp(e) = "p2"
         /\ EvTag(e) = t
         /\ \E n \in 1..(Len(GAME_TYPES) - 1) : GAME_TYPES[n] = g /\ GAME_TYPES[n + 1] = EvGt(e)
    ELSE /\ EvOp(e) = "p1"
         /\ EvTag(e) = t + 1
         /\ EvGt(e) = GAME_TYPES[1]

\* C8: a detail failure is contained to its category. After a non-2xx answer
\* to a detail request, no further detail request is made for that battle tag
\* and category, the run has not ended abnormally, the category's cache file
\* is written, and the run goes on with the next category or battle tag; a
\* run that ends normally has gone through Phase 2 of every category of
\* every battle tag.
C8_DetailFailureContained ==
    /\ \A i \in 1..Len(log) :
          (EvOp(log[i]) = "detail" /\ Non2xx(log[i])) =>
              /\ \A j \in (i + 1)..Len(log) :
                    ~(EvOp(log[j]) = "detail" /\ EvTag(log[j]) = EvTag(log[i]) /\ EvGt(log[j]) = EvGt(log[i]))
              /\ i = Len(log) => pc = "adv_dump"
              /\ i < Len(log) =>
                    EvOp(log[i + 1]) = "dump" /\ EvTag(log[i + 1]) = EvTag(log[i]) /\ EvGt(log[i + 1]) = EvGt(log[i])
              /\ i + 1 = Len(log) => pc \in {"adv_report", "adv_open", "base", "done"}
              /\ i + 1 < Len(log) => VisitsSuccessor(log[i + 2], EvTag(log[i]), EvGt(log[i]))
    /\ pc = "done" =>
          \A t \in 1..Len(battle_tags), g \in GameTypeKeys :
              \E i \in 1..Len(log) : EvOp(log[i]) = "dump" /\ EvTag(log[i]) = t /\ EvGt(log[i]) = g

\* A run ends normally although a detail request of the first battle tag's
\* first category was answered with status 500.
C8_Witness ==
    /\ pc = "done"
    /\ Len(battle_tags) = 2
    /\ \E i \in 1..Len(log) :
          EvOp(log[i]) = "detail" /\ EvSt(log[i]) = 500 /\ EvTag(log[i]) = 1 /\ EvGt(log[i]) = "qm"

(* ------------------------------------------------------------------------ *)
(* C9                                                                       *)
(* ------------------------------------------------------------------------ *)

\* C9, as claimed: when the run ends on a base-listing cache file that is not
\* valid JSON, no Phase 2 work (detail request, advanced-cache write) has been
\* done in that run, whatever the number of battle tags.
C9_NoPhase2BeforeFatal ==
    pc = "exited" => \A i \in 1..Len(log) : EvOp(log[i]) \notin Phase2Ops

\* C9, amended: when the run ends on a base-listing cache file that is not
\* valid JSON, no Phase 2 work has been done in that run for the battle tag
\* the file belongs to or for any later one (Phase 2 of earlier battle tags
\* has been done); and Phase 2 work is only ever done for a battle tag whose
\* four base-listing cache files parse.
C9_NoPhase2ForCorruptTag ==
    /\ pc = "exited" =>
          /\ cause = "corrupt"
          /\ Exists(files[base_file])
          /\ ~JsonParses(files[base_file])
          /\ \A i \in 1..Len(log) : EvOp(log[i]) \in Phase2Ops => EvTag(log[i]) < tag_i
    /\ \A t \in 1..Len(battle_tags) :
          (\E i \in 1..Len(log) : EvTag(log[i]) = t /\ EvOp(log[i]) \in Phase2Ops) =>
              \A g \in GameTypeKeys :
                  JsonParses(files[BaseFile(Username(battle_tags[t].battletag), g)])

\* The run ends on a corrupt base file of the second battle tag, after Phase 2
\* of the first one.
C9_Witness ==
    /\ pc = "exited"
    /\ tag_i = 2
    /\ \E i \in 1..Len(log) : EvOp(log[i]) = "dump" /\ EvTag(log[i]) = 1

(* ------------------------------------------------------------------------ *)
(* C10                                                                      *)
(* ------------------------------------------------------------------------ *)

\* The parsed Base Listing has no identifiers for label: the label is absent
\* from the mapping or maps to the empty list.
NoIdentifiers(content, label) ==
    /\ JsonParses(content)
    /\ label \notin DOMAIN JsonLoad(content) \/ JsonLoad(content)[label] = <<>>

\* C10: an empty listing is a normal outcome. When Phase 2 has gone through a
\* category whose Base Listing has no identifiers (label absent, also from a
\* non-empty mapping, or empty list), it has made no request, the count is 0,
\* the advanced cache file holds the previously cached record set unchanged,
\* and the run has not ended abnormally.
C10_EmptyListingNormal ==
    (/\ pc \in {"adv_empty", "adv_dump", "adv_report", "crashed"}
     /\ \E i \in 1..Len(log) : EvOp(log[i]) = "p2" /\ EvTag(log[i]) = tag_i /\ EvGt(log[i]) = game_type
     /\ NoIdentifiers(files[base_file], GameTypeLabel(game_type)))
        => /\ pc # "crashed"
           /\ PassReqs(tag_i, game_type) = <<>>
           /\ replays_cnt = 0
           /\ pc \in {"adv_empty", "adv_report"} => files[adv_file] = JsonDump(pass_start)

\* C10 for the listings the code handles: the empty mapping and the empty list.
C10_EmptyMappingOrList ==
    (/\ pc \in {"adv_empty", "adv_dump", "adv_report", "crashed"}
     /\ \E i \in 1..Len(log) : EvOp(log[i]) = "p2" /\ EvTag(log[i]) = tag_i /\ EvGt(log[i]) = game_type
     /\ NoIdentifiers(files[base_file], GameTypeLabel(game_type))
     /\ \/ DOMAIN JsonLoad(files[base_file]) = {}
        \/ GameTypeLabel(game_type) \in DOMAIN JsonLoad(files[base_file]))
        => /\ pc # "crashed"
           /\ PassReqs(tag_i, game_type) = <<>>
           /\ replays_cnt = 0
           /\ pc \in {"adv_empty", "adv_report"} => files[adv_file] = JsonDump(pass_start)

(* ------------------------------------------------------------------------ *)
(* C11                                                                      *)
(* ------------------------------------------------------------------------ *)

\* The entries of the battle_tags section of the configuration.
ConfigItems == config_content.battle_tags.items

\* An entry that pairs a handle with an override block of option values.
HasOverrideBlock(entry) == entry.type \in {"str", "dict"} /\ DOMAIN entry.block # {}

\* C11: override precedence. Once the configuration is resolved, every
\* identity entry that comes with an override block has a resolved identity
\* whose properties given in that block have the block's values, whatever the
\* general section says; and when the block gives api_token_path, api_token is
\* the trimmed content of the file the block names.
C11_OverridePrecedence ==
    (runs >= 1 /\ config_content.general.has) =>
        \A i \in DOMAIN ConfigItems :
            HasOverrideBlock(ConfigItems[i]) =>
                /\ i \in DOMAIN battle_tags
                /\ \A p \in DOMAIN ConfigItems[i].block :
                      battle_tags[i][p] = ConfigItems[i].block[p]
                /\ "api_token_path" \in DOMAIN ConfigItems[i].block =>
                      battle_tags[i].api_token =
                          Strip(TokenFiles[ConfigItems[i].block["api_token_path"]])

\* What the code resolves: a property the general section gives has the
\* general value, also when the entry's override block gives another one.
C11_GeneralValueKept ==
    (runs >= 1 /\ pc = "base") =>
        \A i \in DOMAIN battle_tags :
            /\ \A p \in DOMAIN config_content.general.val :
                  battle_tags[i][p] = config_content.general.val[p]
            /\ battle_tags[i].api_token = Strip(TokenFiles[GeneralValues["api_token_path"]])

(* ------------------------------------------------------------------------ *)
(* C12                                                                      *)
(* ------------------------------------------------------------------------ *)

\* No network request has been made and no cache file has been touched.
NothingDone == log = <<>> /\ files \in InitialDisks /\ at_start = files

\* C12, as claimed: a configuration that lacks the general section, or lacks
\* the battle_tags section, ends every run with a fatal error before any
\* network request or cache-file access.
C12_MissingSectionsFatal ==
    (runs >= 1 /\ (~config_content.general.has \/ ~config_content.battle_tags.has))
        => pc = "crashed" /\ NothingDone

\* C12, amended: a configuration that lacks the general section ends every
\* run with a fatal error (the failed assert) before any network request or
\* cache-file access; a configuration that has the general section and lacks
\* the battle_tags section is not an error: the run ends normally with no
\* identity, no network request and no cache-file access.
C12_MissingGeneralFatal ==
    /\ (runs >= 1 /\ ~config_content.general.has)
          => pc = "crashed" /\ cause = "AssertionError" /\ NothingDone
    /\ (runs >= 1 /\ config_content.general.has /\ ~config_content.battle_tags.has)
          => pc = "done" /\ battle_tags = <<>> /\ NothingDone

\* A second run has ended on the missing general section of a configuration
\* that names a battle tag.
C12_Witness ==
    /\ runs = 2
    /\ ~config_content.general.has
    /\ config_content.battle_tags.has
    /\ pc = "crashed"

(* ------------------------------------------------------------------------ *)
(* C13                                                                      *)
(* ------------------------------------------------------------------------ *)

\* COMPLETE: the Base Listing of (u, g) is on disk and every identifier in it
\* has a record in the on-disk Advanced Record Set.
Complete(u, g) ==
    /\ JsonParses(files[BaseFile(u, g)])
    /\ BaseIds(u, g) \subseteq AdvKeys(u, g)

\* The same, of the cache files as they were when the run started.
CompleteAtStart(u, g) ==
    LET b == at_start[BaseFile(u, g)]
        a == at_start[AdvFile(u, g)]
        label == GameTypeLabel(g)
    IN  /\ JsonParses(b)
        /\ label \in DOMAIN JsonLoad(b) =>
              /\ JsonParses(a)
              /\ Range(JsonLoad(b)[label]) \subseteq DOMAIN JsonLoad(a)

\* No base-listing cache file was unparseable when the run started.
BaseCachesSound ==
    \A u \in Usernames, g \in GameTypeKeys :
        at_start[BaseFile(u, g)].k \in {"absent", "json"}

\* A network request of the run.
IsRequest(e) == EvOp(e) \in {"list", "detail"}

\* A response with status 200 and a JSON body.
SuccessResponse(e) == StatusOk(EvSt(e)) /\ EvBody(e) \in {"json", "nolabel", "record", "nokey"}

\* C13: completion. A run that starts with parseable base-listing cache files
\* and in which every network request returns success has, when it has
\* terminated, every category of every configured battle tag
\* COMPLETE; and a category that was COMPLETE when a run started is COMPLETE
\* when that run has terminated.
C13_AllSuccessComplete ==
    /\ (Ended /\ battle_tags # <<>> /\ BaseCachesSound
              /\ \A i \in 1..Len(log) : IsRequest(log[i]) => SuccessResponse(log[i]))
          => \A t \in 1..Len(battle_tags), g \in GameTypeKeys :
                 Complete(Username(battle_tags[t].battletag), g)
    /\ Ended =>
          \A u \in Usernames, g \in GameTypeKeys : CompleteAtStart(u, g) => Complete(u, g)

\* C13 for answers that carry what was asked for: a run that has terminated
\* and in which every listing request was answered 200 with a JSON object and
\* every detail request 200 with the record has every category COMPLETE, and
\* has ended normally unless a cached listing lacks its label.
C13_RecordsComplete ==
    (Ended /\ battle_tags # <<>> /\ BaseCachesSound
           /\ \A i \in 1..Len(log) :
                 IsRequest(log[i]) =>
                     StatusOk(EvSt(log[i])) /\ EvBody(log[i]) \in {"json", "record"})
        => /\ pc = "done" \/ cause = "keyerror_label"
           /\ \A t \in 1..Len(battle_tags), g \in GameTypeKeys :
                 Complete(Username(battle_tags[t].battletag), g)

\* C13, second half: a category that was COMPLETE when a run started is
\* COMPLETE when that run has terminated.
C13_CompleteStays ==
    Ended => \A u \in Usernames, g \in GameTypeKeys : CompleteAtStart(u, g) => Complete(u, g)

(* ------------------------------------------------------------------------ *)
(* C14                                                                      *)
(* ------------------------------------------------------------------------ *)

\* Phase 2 of the current category was cut short by an exception raised by a
\* detail request: a transport failure, or a 200 answer without the key.
DetailRaised ==
    /\ pc = "crashed"
    /\ cause \in {"transport", "keyerror_id"}
    /\ log # <<>>
    /\ EvOp(log[Len(log)]) = "detail"

\* C14: partial progress survives every kind of mid-phase failure. When Phase
\* 2 of a category is cut short by a transport failure of a detail request or
\* by a success response without the requested key, the advanced cache file
\* then holds every record that was cached before the pass and every record
\* fetched in the pass up to the failure.
C14_ProgressSurvives ==
    DetailRaised =>
        LET disk == AdvLoaded(files[adv_file]) IN
        \A r \in DOMAIN adv_json : r \in DOMAIN disk /\ disk[r] = adv_json[r]

\* What the code leaves behind: the advanced cache file is empty, whatever
\* was cached or fetched.
C14_FileLeftEmpty == DetailRaised => files[adv_file] = EmptyText

(* ------------------------------------------------------------------------ *)
(* C15                                                                      *)
(* ------------------------------------------------------------------------ *)

\* The phases entered in the run so far, in order: <<phase, tag, category>>.
PhaseSeq ==
    LET entries == SelectSeq(log, LAMBDA e : EvOp(e) \in {"p1", "p2"})
    IN  [k \in 1..Len(entries) |->
            <<EvOp(entries[k]), EvTag(entries[k]), EvGt(entries[k])>>]

NumGameTypes == Len(GAME_TYPES)

\* The k-th phase of a run when Phase 1 and Phase 2 alternate per category.
InterleavedOrder(k) ==
    LET t == ((k - 1) \div (2 * NumGameTypes)) + 1
        w == (k - 1) % (2 * NumGameTypes)
    IN  <<IF w % 2 = 0 THEN "p1" ELSE "p2", t, GAME_TYPES[(w \div 2) + 1]>>

\* The k-th phase of a run when Phase 1 of all categories comes before
\* Phase 2 of all categories.
PhaseByPhaseOrder(k) ==
    LET t == ((k - 1) \div (2 * NumGameTypes)) + 1
        w == (k - 1) % (2 * NumGameTypes)
    IN  <<IF w < NumGameTypes THEN "p1" ELSE "p2", t, GAME_TYPES[(w % NumGameTypes) + 1]>>

\* C15, as claimed: battle tags are processed in configuration order, and for
\* each one the categories in the order qm, sl, ud, aram, Phase 1 of a
\* category being followed by Phase 2 of that category before Phase 1 of the
\* next category.
C15_PhasesInterleaved ==
    LET phases == PhaseSeq
    IN  \A k \in 1..Len(phases) : phases[k] = InterleavedOrder(k)

\* C15, amended: battle tags are processed in configuration order, and for
\* each one Phase 1 runs for the categories qm, sl, ud, aram in this order and
\* then Phase 2 runs for qm, sl, ud, aram in this order; a run that ends
\* normally has gone through both phases of every category of every battle
\* tag.
C15_PhaseByPhase ==
    LET phases == PhaseSeq
    IN  /\ \A k \in 1..Len(phases) : phases[k] = PhaseByPhaseOrder(k)
        /\ pc = "done" => Len(phases) = 2 * NumGameTypes * Len(battle_tags)

\* A run over two battle tags has ended normally.
C15_Witness ==
    /\ pc = "done"
    /\ Len(battle_tags) = 2
    /\ Len(PhaseSeq) = 4 * NumGameTypes

(* ------------------------------------------------------------------------ *)
(* C16                                                                      *)
(* ------------------------------------------------------------------------ *)

\* Phase 2 of the current category is at its count report (lines 132-135),
\* the advanced cache file being written, and the count is zero: the report
\* is "All replays are already downloaded".
ReportsZero == pc = "adv_report" /\ replays_cnt = 0

\* The keys that the pass over the current category added to its on-disk
\* Advanced Record Set.
KeysAdded == AdvKeys(username, game_type) \ DOMAIN pass_start

\* C16: meaning of the reported count. Whenever Phase 2 of a category reports
\* the count zero, the category is COMPLETE; whenever it reports a non-zero
\* count, the count is the number of keys added to the advanced cache file.
C16_ReportMeaning ==
    /\ ReportsZero => Complete(username, game_type)
    /\ (pc = "adv_report" /\ replays_cnt # 0) => replays_cnt = Cardinality(KeysAdded)

\* C16, second half, and what a count of zero does mean: no key was added.
C16_CountIsKeysAdded ==
    pc = "adv_report" => replays_cnt = Cardinality(KeysAdded)

(* ------------------------------------------------------------------------ *)
(* C17                                                                      *)
(* ------------------------------------------------------------------------ *)

\* The base-listing cache file of (u, g) existed with unparseable content
\* when the current run started, and u is a configured battle tag's username.
CorruptAtStart(u, g) ==
    /\ runs >= 1
    /\ at_start[BaseFile(u, g)] # Absent
    /\ ~JsonParses(at_start[BaseFile(u, g)])
    /\ \E t \in 1..Len(battle_tags) : Username(battle_tags[t].battletag) = u

\* Log entry e is about the base-listing cache file of (u, g).
AboutBase(e, u, g) == EventUser(e) = u /\ EvGt(e) = g

\* The run makes no listing request for (u, g) and leaves its base file alone.
Untouched(u, g) ==
    /\ files[BaseFile(u, g)] = at_start[BaseFile(u, g)]
    /\ \A i \in 1..Len(log) :
          EvOp(log[i]) \in {"list", "wbase"} => ~AboutBase(log[i], u, g)

\* The run has ended with the fatal error of Phase 1 at (u, g).
ExitedAt(u, g) ==
    /\ pc = "exited"
    /\ cause = "corrupt"
    /\ username = u
    /\ game_type = g

\* C17, as claimed: a run that starts with an unparseable base-listing cache
\* file makes no listing request for it, does not modify it, and terminates
\* fatally at that (identity, category).
C17_FatalAtCorruptFile ==
    \A u \in Usernames, g \in GameTypeKeys :
        CorruptAtStart(u, g) =>
            /\ Untouched(u, g)
            /\ Ended => ExitedAt(u, g)

\* C17, amended: a run that starts with an unparseable base-listing cache
\* file makes no listing request for it, does not modify it and never ends
\* normally: it terminates fatally at that (identity, category) as soon as
\* Phase 1 gets there, unless it has terminated fatally before getting there.
C17_NeverHealed ==
    \A u \in Usernames, g \in GameTypeKeys :
        CorruptAtStart(u, g) =>
            /\ Untouched(u, g)
            /\ pc # "done"
            /\ \A i \in 1..Len(log) :
                  (EvOp(log[i]) = "p1" /\ AboutBase(log[i], u, g)) =>
                      i = Len(log) /\ ExitedAt(u, g)

\* A second run has ended at the unparseable base file that was left by the
\* first run for the second battle tag.
C17_Witness ==
    /\ runs = 2
    /\ Len(battle_tags) = 2
    /\ CorruptAtStart(Username(TagB2), "qm")
    /\ ExitedAt(Username(TagB2), "qm")

(* ------------------------------------------------------------------------ *)
(* C18                                                                      *)
(* ------------------------------------------------------------------------ *)

\* The first run, started on empty caches, has ended normally and every
\* request in it was answered 200 with what was asked for.
CleanFirstRun ==
    /\ runs = 1
    /\ at_start = EmptyDisk
    /\ pc = "done"
    /\ \A i \in 1..Len(log) :
          IsRequest(log[i]) => StatusOk(EvSt(log[i])) /\ EvBody(log[i]) \in {"json", "record"}

\* The positions of the listing requests the run made for battle tag t and
\* category g.
ListingRequests(t, g) ==
    { i \in 1..Len(log) : EvOp(log[i]) = "list" /\ EvTag(log[i]) = t /\ EvGt(log[i]) = g }

\* The cache files the step logged as e reads or writes.
FilesOf(e) ==
    IF EvOp(e) \in {"p1", "list", "wbase"}
    THEN {BaseFile(EventUser(e), EvGt(e))}
    ELSE {BaseFile(EventUser(e), EvGt(e)), AdvFile(EventUser(e), EvGt(e))}

\* The run has issued exactly one listing request per battle tag and category
\* and no cache file was read or written for two different battle tags.
OnePairPerIdentity ==
    /\ \A t \in 1..Len(battle_tags), g \in GameTypeKeys :
          Cardinality(ListingRequests(t, g)) = 1
    /\ \A i, j \in 1..Len(log) :
          EvTag(log[i]) # EvTag(log[j]) => FilesOf(log[i]) \cap FilesOf(log[j]) = {}

\* C18: caches are keyed per identity. After a run that started from empty
\* caches and in which every request succeeded, exactly one listing request
\* was made for every configured battle tag and category, and no cache file
\* was read or written for two different battle tags, also when two battle
\* tags share the part before '#'.
C18_CachesPerIdentity == CleanFirstRun => OnePairPerIdentity

\* C18 for battle tags that differ in the part before '#'.
C18_CachesPerUsername ==
    (/\ CleanFirstRun
     /\ \A t1, t2 \in 1..Len(battle_tags) :
           t1 # t2 => Username(battle_tags[t1].battletag) # Username(battle_tags[t2].battletag))
        => OnePairPerIdentity

(* ------------------------------------------------------------------------ *)
(* C19                                                                      *)
(* ------------------------------------------------------------------------ *)

\* Log entry e is a listing request that got a non-2xx status.
RejectedListing(e) == EvOp(e) = "list" /\ Non2xx(e)

\* C19: a failed listing fetch leaves no cache file behind. A listing request
\* is only made for a base file that is absent; once it is answered with a
\* non-2xx status the run ends at once and the base file still does not
\* exist; and in the run after it, Phase 1 of that category makes the listing
\* request again.
C19_FailedListingLeavesNoFile ==
    /\ \A i \in 1..Len(log) :
          RejectedListing(log[i]) =>
              /\ i = Len(log)
              /\ Ended
              /\ at_start[BaseFile(EventUser(log[i]), EvGt(log[i]))] = Absent
              /\ files[BaseFile(EventUser(log[i]), EvGt(log[i]))] = Absent
    /\ failed_listing # <<>> =>
          LET t == failed_listing[1]
              g == failed_listing[2]
          IN  /\ at_start[BaseFile(Username(battle_tags[t].battletag), g)] = Absent
              /\ \A i \in 1..Len(log) :
                    (EvOp(log[i]) = "p1" /\ EvTag(log[i]) = t /\ EvGt(log[i]) = g) =>
                        /\ i < Len(log)
                        /\ EvOp(log[i + 1]) = "list"
                        /\ EvTag(log[i + 1]) = t
                        /\ EvGt(log[i + 1]) = g

\* The run after a rejected listing request has requested the listing again
\* and, answered 200 this time, has written the base file.
C19_Witness ==
    /\ failed_listing # <<>>
    /\ JsonParses(files[BaseFile(Username(battle_tags[failed_listing[1]].battletag),
                                 failed_listing[2])])
    /\ \E i \in 1..Len(log) :
          /\ EvOp(log[i]) = "list"
          /\ EvSt(log[i]) = 200
          /\ EvTag(log[i]) = failed_listing[1]
          /\ EvGt(log[i]) = failed_listing[2]

(* ------------------------------------------------------------------------ *)
(* C20                                                                      *)
(* ------------------------------------------------------------------------ *)

\* The status 200.
Is200(status) == status = 200

\* A response came back and, if it has a body, the body is JSON that holds
\* what was asked for.
Answered(e) == EvBody(e) \notin {"transport", "garbage", "nokey"}

\* The program treats the answered requests of the run as classified by Ok:
\* in the current pass of Phase 2 exactly the detail responses with an Ok
\* status have their identifier in the Advanced Record Set and are counted;
\* a listing response with an Ok status is followed by the write of the
\* base file, which then parses, and any other one ends the run at once with
\* no base file.
Classifies(Ok(_)) ==
    /\ pc \in {"adv_loop", "adv_dump", "adv_report"} =>
          LET reqs == PassReqs(tag_i, game_type)
              good == { i \in 1..Len(reqs) : Answered(reqs[i]) /\ Ok(EvSt(reqs[i])) }
          IN  /\ replays_cnt = Cardinality(good)
              /\ \A i \in 1..Len(reqs) :
                    Answered(reqs[i]) =>
                        (i \in good <=> EvId(reqs[i]) \in DOMAIN adv_json)
    /\ \A i \in 1..Len(log) :
          (EvOp(log[i]) = "list" /\ Answered(log[i])) =>
              IF Ok(EvSt(log[i]))
              THEN /\ i < Len(log)
                   /\ EvOp(log[i + 1]) = "wbase"
                   /\ JsonParses(files[BaseFile(EventUser(log[i]), EvGt(log[i]))])
              ELSE /\ i = Len(log)
                   /\ pc = "crashed"
                   /\ files[BaseFile(EventUser(log[i]), EvGt(log[i]))] = Absent

\* C20, as claimed: in both phases a response counts as success exactly when
\* its status is in the 2xx range: every 2xx detail response has its payload
\* inserted and counted, every 2xx listing response has the base file written
\* and is not fatal.
C20_SuccessIs2xx == Classifies(Is2xx)

\* C20, amended: in both phases a response counts as success exactly when
\* its status is 200: every 200 detail response has its payload inserted and
\* counted, every 200 listing response has the base file written and is not
\* fatal; any other status, 2xx statuses other than 200 included, is a
\* failure (the loop stops with nothing inserted or counted; the run ends
\* with no base file written).
C20_SuccessIs200 == Classifies(Is200)

\* A pass of Phase 2 counted one record although it got two answers in the
\* 2xx range: one with status 200 and one with status 204.
C20_Witness ==
    /\ pc = "adv_report"
    /\ replays_cnt = 1
    /\ \E i \in 1..Len(log) :
          /\ EvOp(log[i]) = "detail" /\ EvTag(log[i]) = tag_i /\ EvGt(log[i]) = game_type
          /\ EvSt(log[i]) = 204

====
